---- MODULE Spec2Model ----
(***************************************************************************)
(* The chat page of the AI coding assistant (ui/chat_page.py): the session *)
(* dictionary, the four conversation stages, the message history, and the  *)
(* two call-outs to the orchestration engine.                              *)
(*                                                                         *)
(* A Python str is a sequence of tokens: a token is one character ("a") or *)
(* a fixed piece of template text ("<GREETING>").  An Optional value is a  *)
(* sequence of length 0 (None) or 1 (the value).                           *)
(***************************************************************************)
EXTENDS Integers, Sequences, FiniteSets, TLC

VARIABLES
    session_state,  \* st.session_state: a dict, key -> value
    pc,             \* position of the script run
    widget,         \* what the form delivers to this run: submit_button, user_input
    screen,         \* what the last render put on the page
    calls,          \* the calls that left the page, in order, each with its outcome
    tmp_files,      \* the archives written under /tmp
    submissions     \* completed runs of process_user_input

vars == <<session_state, pc, widget, screen, calls, tmp_files, submissions>>

\* ------------------------------------------------------------------ bounds

MaxSubmissions == 4
MaxTimestamp == 2

\* --------------------------------------------------------------- constants

MinDetailLen == 50        \* len(user_input) > 50
PlanPrefixLen == 100      \* user_requirements[:100]

\* ----------------------------------------------------------------- strings

None == <<>>
Some(v) == <<v>>

Rep(c, n) == [i \in 1..n |-> c]

Whitespace == {" ", "\t", "\n", "\r"}

UpperCase == <<"A","B","C","D","E","F","G","H","I","J","K","L","M",
               "N","O","P","Q","R","S","T","U","V","W","X","Y","Z">>
LowerCase == <<"a","b","c","d","e","f","g","h","i","j","k","l","m",
               "n","o","p","q","r","s","t","u","v","w","x","y","z">>

LowerChar(c) ==
    IF \E i \in 1..Len(UpperCase) : UpperCase[i] = c
    THEN LowerCase[CHOOSE i \in 1..Len(UpperCase) : UpperCase[i] = c]
    ELSE c

\* str.lower()
Lower(s) == [i \in 1..Len(s) |-> LowerChar(s[i])]

\* str.strip(): drops the leading and the trailing whitespace
Strip(s) ==
    LET keep == {i \in 1..Len(s) : s[i] \notin Whitespace}
    IN  IF keep = {} THEN <<>>
        ELSE LET lo == CHOOSE i \in keep : \A j \in keep : i <= j
                 hi == CHOOSE i \in keep : \A j \in keep : j <= i
             IN  SubSeq(s, lo, hi)

\* s[:n]
Prefix(s, n) == IF Len(s) <= n THEN s ELSE SubSeq(s, 1, n)

SlashCode == <<"/", "c", "o", "d", "e">>

\* ------------------------------------------------------------ the inputs

Inputs ==
    { <<>>,
      Rep("a", MinDetailLen),
      Rep("a", MinDetailLen + 1),
      <<" ", "/", "C", "o", "D", "E", "\n">>,
      SlashCode \o Rep(" ", MinDetailLen + 1 - Len(SlashCode)),
      SlashCode \o <<"x">> }

PlanResults == { <<>>, <<"<plan from the agent>">> }
PipelineResults == { <<"<status: success>">>, <<"<status: error>">> }
ErrorTexts == { <<"<engine failure>">> }

Returns(v) == [raises |-> FALSE, value |-> v]
Raises(e) == [raises |-> TRUE, value |-> e]

PlannerOutcomes ==
    {Returns(r) : r \in PlanResults} \cup {Raises(e) : e \in ErrorTexts}
PipelineOutcomes ==
    {Returns(r) : r \in PipelineResults} \cup {Raises(e) : e \in ErrorTexts}

Timestamps == 1..MaxTimestamp

\* ----------------------------------------------------- the session dict

Has(ss, k) == k \in DOMAIN ss
Get(ss, k, default) == IF Has(ss, k) THEN ss[k] ELSE default
Set(ss, k, v) == [x \in (DOMAIN ss) \cup {k} |-> IF x = k THEN v ELSE ss[x]]
SetDefault(ss, k, v) == IF Has(ss, k) THEN ss ELSE Set(ss, k, v)

EmptySession == [x \in {} |-> None]

initialize_chat_session_state(ss) ==
    LET s1 == SetDefault(ss, "messages", <<>>)
        s2 == SetDefault(s1, "current_plan", None)
        s3 == SetDefault(s2, "code_generated", FALSE)
        s4 == SetDefault(s3, "generated_code_path", None)
    IN  SetDefault(s4, "chat_stage", "greeting")

add_message(ss, role, content) ==
    Set(ss, "messages", Append(ss["messages"], [role |-> role, content |-> content]))

get_assistant_greeting == <<"<GREETING>">>

\* ------------------------------------------------------------- rendering

display_chat_messages(ss) ==
    [ messages |-> Len(ss["messages"]),
      typing_indicator |-> Get(ss, "assistant_typing", FALSE) ]

DownloadButtonShown(ss) ==
    ss["code_generated"] /\ ss["generated_code_path"] # None

render_chat_interface(ss) ==
    [ chat |-> display_chat_messages(ss),
      download_button |-> DownloadButtonShown(ss),
      command_hint |-> (ss["chat_stage"] = "planning") ]

BlankScreen ==
    [ chat |-> [messages |-> 0, typing_indicator |-> FALSE],
      download_button |-> FALSE,
      command_hint |-> FALSE ]

NoSubmit == [submit_button |-> FALSE, user_input |-> <<>>]

\* ------------------------------------------------------------------ Init

Init ==
    /\ session_state = EmptySession
    /\ pc = "layout"
    /\ widget = NoSubmit
    /\ screen = BlankScreen
    /\ calls = <<>>
    /\ tmp_files = {}
    /\ submissions = 0

\* ------------------------------------------- generate_technical_plan

PlanCall(user_requirements, outcome) ==
    [fn |-> "run_chat_planning_agent", arg |-> user_requirements, outcome |-> outcome]

PlanFromAgent(plan_result) ==
    <<"<PLAN_HEADER>">> \o plan_result \o <<"<PLAN_FOOTER>">>

FallbackPlan(user_requirements) ==
    <<"<PLAN_HEADER>", "<PROJECT_OVERVIEW>">>
        \o Prefix(user_requirements, PlanPrefixLen)
        \o <<"...", "<FALLBACK_APPROACH>", "<PLAN_FOOTER>">>

\* generate_technical_plan without its except clause: the agent's exception
\* leaves the function.
generate_technical_plan_uncaught(ss, user_requirements, outcome) ==
    IF outcome.raises
    THEN [ ss |-> ss,
           ret |-> <<>>,
           calls |-> <<PlanCall(user_requirements, outcome)>>,
           raised |-> TRUE ]
    ELSE [ ss |-> Set(ss, "current_plan", Some(PlanFromAgent(outcome.value))),
           ret |-> PlanFromAgent(outcome.value),
           calls |-> <<PlanCall(user_requirements, outcome)>>,
           raised |-> FALSE ]

\* generate_technical_plan whose except clause returns the fallback plan
\* without storing it.
generate_technical_plan_fallback_unstored(ss, user_requirements, outcome) ==
    IF outcome.raises
    THEN [ ss |-> ss,
           ret |-> FallbackPlan(user_requirements),
           calls |-> <<PlanCall(user_requirements, outcome)>>,
           raised |-> FALSE ]
    ELSE [ ss |-> Set(ss, "current_plan", Some(PlanFromAgent(outcome.value))),
           ret |-> PlanFromAgent(outcome.value),
           calls |-> <<PlanCall(user_requirements, outcome)>>,
           raised |-> FALSE ]

\* The awaited agent either returns plan_result or raises; both paths store
\* the plan they built and return it.
generate_technical_plan(ss, user_requirements, outcome) ==
    LET plan == IF outcome.raises
                THEN FallbackPlan(user_requirements)
                ELSE PlanFromAgent(outcome.value)
    IN  [ ss |-> Set(ss, "current_plan", Some(plan)),
          ret |-> plan,
          calls |-> <<PlanCall(user_requirements, outcome)>>,
          raised |-> FALSE ]

\* -------------------------------------------- generate_code_from_plan

DefaultRequirements == <<"<Generate code based on the technical plan>">>

\* st.session_state.current_plan or "Generate code based on the technical plan"
PlanOrDefault(ss) ==
    IF ss["current_plan"] # None /\ Len(ss["current_plan"][1]) > 0
    THEN ss["current_plan"][1]
    ELSE DefaultRequirements

PipelineCall(user_requirements, outcome) ==
    [ fn |-> "execute_chat_based_planning_pipeline",
      arg |-> user_requirements,
      outcome |-> outcome ]

ZipPath(timestamp) == [dir |-> "/tmp", name |-> "generated_code", timestamp |-> timestamp]

WriteError == <<"<OSError>">>

\* open(zip_path, "wb") and the write
WriteCall(zip_path, write_ok) ==
    [ fn |-> "open",
      arg |-> zip_path,
      outcome |-> IF write_ok THEN Returns(<<>>) ELSE Raises(WriteError) ]

CodeResponse == <<"<CODE_GENERATED>">>
Apology(e) == <<"<SORRY_ERROR>">> \o e

\* The except and finally clauses: the apology, processing cleared.
CodeNotGenerated(ss, e, made) ==
    [ ss |-> Set(ss, "processing", FALSE),
      ret |-> Apology(e),
      calls |-> made,
      files |-> {},
      raised |-> FALSE ]

\* The archive is on disk: path and flag stored, processing cleared.
CodeGenerated(ss, zip_path, made) ==
    [ ss |-> Set(Set(Set(ss, "generated_code_path", Some(zip_path)),
                     "code_generated", TRUE),
                 "processing", FALSE),
      ret |-> CodeResponse,
      calls |-> made,
      files |-> {zip_path},
      raised |-> FALSE ]

\* generate_code_from_plan that reads the result: an error status is treated
\* as a failure and no archive is written.
generate_code_from_plan_reads_result(ss, outcome, write_ok, timestamp) ==
    LET s1 == Set(ss, "processing", TRUE)
        call == PipelineCall(PlanOrDefault(s1), outcome)
    IN  IF outcome.raises
        THEN CodeNotGenerated(s1, outcome.value, <<call>>)
        ELSE IF outcome.value = <<"<status: error>">>
        THEN CodeNotGenerated(s1, outcome.value, <<call>>)
        ELSE IF ~write_ok
        THEN CodeNotGenerated(s1, WriteError, <<call, WriteCall(ZipPath(timestamp), FALSE)>>)
        ELSE CodeGenerated(s1, ZipPath(timestamp), <<call, WriteCall(ZipPath(timestamp), TRUE)>>)

\* generate_code_from_plan that sets code_generated before it calls the
\* pipeline.
generate_code_from_plan_flag_first(ss, outcome, write_ok, timestamp) ==
    LET s1 == Set(Set(ss, "processing", TRUE), "code_generated", TRUE)
        call == PipelineCall(PlanOrDefault(s1), outcome)
    IN  IF outcome.raises
        THEN CodeNotGenerated(s1, outcome.value, <<call>>)
        ELSE IF ~write_ok
        THEN CodeNotGenerated(s1, WriteError, <<call, WriteCall(ZipPath(timestamp), FALSE)>>)
        ELSE CodeGenerated(s1, ZipPath(timestamp), <<call, WriteCall(ZipPath(timestamp), TRUE)>>)

\* The pipeline call either returns a result or raises (as it does when
\* asyncio.run refuses to start under the loop that runs process_user_input);
\* the result is not read.  The archive is written after the call returned,
\* and the path and the flag are set after the write; any exception on the
\* way gives the apology.  The finally clause clears processing on every path.
generate_code_from_plan(ss, outcome, write_ok, timestamp) ==
    LET s1 == Set(ss, "processing", TRUE)
        user_requirements == PlanOrDefault(s1)
        zip_path == ZipPath(timestamp)
        call == PipelineCall(user_requirements, outcome)
    IN  IF outcome.raises
        THEN CodeNotGenerated(s1, outcome.value, <<call>>)
        ELSE IF ~write_ok
        THEN CodeNotGenerated(s1, WriteError, <<call, WriteCall(zip_path, FALSE)>>)
        ELSE CodeGenerated(s1, zip_path, <<call, WriteCall(zip_path, TRUE)>>)

\* ------------------------------------------------ process_user_input

AckResponse == <<"<THANKS_FOR_INTRODUCTION>">>
MoreDetailsResponse == <<"<PROVIDE_MORE_DETAILS>">>
StillCollectingResponse == <<"<STILL_COLLECTING_TYPE_CODE>">>
FollowUpResponse == <<"<CODE_GENERATED_DOWNLOAD_ABOVE>">>

\* The detail check with >= for >.
SufficientDetail_ge(user_input) == Len(user_input) >= MinDetailLen

\* len(user_input) > 50
SufficientDetail(user_input) == Len(user_input) > MinDetailLen

\* user_input.strip().lower() == "/code"
WantsCode(user_input) == Lower(Strip(user_input)) = SlashCode

Step(ss, new_calls, files, raised) ==
    [ss |-> ss, calls |-> new_calls, files |-> files, raised |-> raised]

greeting_branch(ss) ==
    Step(add_message(Set(ss, "chat_stage", "collecting_requirements"),
                     "assistant", AckResponse),
         <<>>, {}, FALSE)

\* The collecting branch that moves straight to generating after the plan.
collecting_branch_skips(ss, user_input, outcome) ==
    IF Len(user_input) > MinDetailLen
    THEN LET plan == IF outcome.raises
                     THEN FallbackPlan(user_input)
                     ELSE PlanFromAgent(outcome.value)
         IN  Step(Set(add_message(Set(ss, "current_plan", Some(plan)),
                                  "assistant", plan),
                      "chat_stage", "generating"),
                  <<PlanCall(user_input, outcome)>>, {}, FALSE)
    ELSE Step(add_message(ss, "assistant", <<"<PROVIDE_MORE_DETAILS>">>), <<>>, {}, FALSE)

collecting_branch(ss, user_input, outcome) ==
    IF SufficientDetail(user_input)
    THEN LET r == generate_technical_plan(ss, user_input, outcome)
         IN  IF r.raised
             THEN Step(r.ss, r.calls, {}, TRUE)
             ELSE Step(Set(add_message(r.ss, "assistant", r.ret),
                           "chat_stage", "planning"),
                       r.calls, {}, FALSE)
    ELSE Step(add_message(ss, "assistant", MoreDetailsResponse), <<>>, {}, FALSE)

planning_branch(ss, user_input, outcome, write_ok, timestamp) ==
    IF WantsCode(user_input)
    THEN LET r == generate_code_from_plan(ss, outcome, write_ok, timestamp)
         IN  IF r.raised
             THEN Step(r.ss, r.calls, r.files, TRUE)
             ELSE Step(Set(add_message(r.ss, "assistant", r.ret),
                           "chat_stage", "generating"),
                       r.calls, r.files, FALSE)
    ELSE Step(add_message(ss, "assistant", StillCollectingResponse), <<>>, {}, FALSE)

generating_branch(ss) ==
    Step(add_message(ss, "assistant", FollowUpResponse), <<>>, {}, FALSE)

\* ---------------------------------------------------------------- actions

\* The user sends the form (or the page reruns without a submission).
UserInteracts ==
    /\ pc = "idle"
    /\ \E submit \in BOOLEAN, u \in Inputs :
          /\ ~submit => u = <<>>
          /\ (submit /\ u # <<>>) => submissions < MaxSubmissions
          /\ widget' = [submit_button |-> submit, user_input |-> u]
    /\ pc' = "layout"
    /\ UNCHANGED <<session_state, screen, calls, tmp_files, submissions>>

\* The greeting added on every render.
GreetingDue_every_render(ss) == TRUE

\* if not st.session_state.messages
GreetingDue(ss) == ss["messages"] = <<>>

\* chat_main_layout down to the form of render_chat_interface.
chat_main_layout ==
    /\ pc = "layout"
    /\ LET s1 == initialize_chat_session_state(session_state)
           s2 == IF GreetingDue(s1)
                 THEN add_message(s1, "assistant", get_assistant_greeting)
                 ELSE s1
       IN  /\ session_state' = s2
           /\ screen' = render_chat_interface(s2)
    /\ pc' = "form"
    /\ UNCHANGED <<widget, calls, tmp_files, submissions>>

\* if submit_button and user_input
FormSubmitted(w) == w.submit_button /\ w.user_input # <<>>

\* The form: nothing to process, the script run ends.
FormIdle ==
    /\ pc = "form"
    /\ ~FormSubmitted(widget)
    /\ pc' = "idle"
    /\ widget' = NoSubmit
    /\ UNCHANGED <<session_state, screen, calls, tmp_files, submissions>>

\* process_user_input, lines 189-192: the user message and the typing flag.
process_user_input_start ==
    /\ pc = "form"
    /\ FormSubmitted(widget)
    /\ session_state' = Set(add_message(session_state, "user", widget.user_input),
                            "assistant_typing", TRUE)
    /\ pc' = "dispatch"
    /\ UNCHANGED <<widget, screen, calls, tmp_files, submissions>>

\* An exception out of process_user_input ends the script run where it is.
Dispatched(r) ==
    /\ session_state' = r.ss
    /\ calls' = calls \o r.calls
    /\ tmp_files' = tmp_files \cup r.files
    /\ pc' = IF r.raised THEN "idle" ELSE "finish"
    /\ widget' = IF r.raised THEN NoSubmit ELSE widget
    /\ UNCHANGED <<screen, submissions>>

StageGreeting ==
    /\ pc = "dispatch"
    /\ session_state["chat_stage"] = "greeting"
    /\ Dispatched(greeting_branch(session_state))

StageCollecting ==
    /\ pc = "dispatch"
    /\ session_state["chat_stage"] = "collecting_requirements"
    /\ \E outcome \in PlannerOutcomes :
          Dispatched(collecting_branch(session_state, widget.user_input, outcome))

StagePlanning ==
    /\ pc = "dispatch"
    /\ session_state["chat_stage"] = "planning"
    /\ \E outcome \in PipelineOutcomes, write_ok \in BOOLEAN, ts \in Timestamps :
          Dispatched(planning_branch(session_state, widget.user_input,
                                     outcome, write_ok, ts))

StageGenerating ==
    /\ pc = "dispatch"
    /\ session_state["chat_stage"] = "generating"
    /\ Dispatched(generating_branch(session_state))

\* process_user_input, line 232, and st.rerun().
process_user_input_end ==
    /\ pc = "finish"
    /\ session_state' = Set(session_state, "assistant_typing", FALSE)
    /\ submissions' = submissions + 1
    /\ widget' = NoSubmit
    /\ pc' = "layout"
    /\ UNCHANGED <<screen, calls, tmp_files>>

Next ==
    \/ UserInteracts
    \/ chat_main_layout
    \/ FormIdle
    \/ process_user_input_start
    \/ StageGreeting
    \/ StageCollecting
    \/ StagePlanning
    \/ StageGenerating
    \/ process_user_input_end

Spec == Init /\ [][Next]_vars

\* ------------------------------------------------------------ properties

Stages == {"greeting", "collecting_requirements", "planning", "generating"}

StageSuccessor ==
    { <<"greeting", "collecting_requirements">>,
      <<"collecting_requirements", "planning">>,
      <<"planning", "generating">> }

Initialized == Has(session_state, "chat_stage")

\* No submission is being processed: the script is before the form, at the
\* form, or has ended.
Completed == Initialized /\ pc \in {"layout", "form", "idle"}

chat_stage == session_state["chat_stage"]
messages == session_state["messages"]
current_plan == session_state["current_plan"]
code_generated == session_state["code_generated"]
generated_code_path == session_state["generated_code_path"]

Last(seq) == seq[Len(seq)]

EngineCalls == {"run_chat_planning_agent", "execute_chat_based_planning_pipeline"}

\* The step made an external call: the first one it made, with its outcome.
Called(fn) ==
    /\ Len(calls') > Len(calls)
    /\ calls'[Len(calls) + 1].fn = fn

NewCall == calls'[Len(calls) + 1]

\* C1: chat_stage is always one of the four stages, it starts at greeting,
\* and every step that changes it moves it to the immediate successor in
\* greeting -> collecting_requirements -> planning -> generating, whether the
\* external calls return or raise.
C1_StageLinear ==
    /\ [](Initialized => chat_stage \in Stages)
    /\ [][ IF Initialized
           THEN /\ Has(session_state', "chat_stage")
                /\ \/ session_state'["chat_stage"] = chat_stage
                   \/ <<chat_stage, session_state'["chat_stage"]>> \in StageSuccessor
           ELSE Has(session_state', "chat_stage")
                    => session_state'["chat_stage"] = "greeting" ]_vars

\* The stage reached generating although both external calls raised.
C1_Witness ==
    /\ Initialized
    /\ chat_stage = "generating"
    /\ Len(calls) = 2
    /\ calls[1].outcome.raises
    /\ calls[2].outcome.raises

\* C2: a step in which run_chat_planning_agent raises still completes
\* process_user_input and appends exactly one assistant message, the fallback
\* plan built from the input; a step in which the pipeline raises still
\* completes and appends exactly one assistant message, the apology with the
\* error text.  Nothing propagates: the run goes on to its last line.
C2_FailuresCaught ==
    [][ \A fn \in EngineCalls :
          (Called(fn) /\ NewCall.outcome.raises) =>
             /\ pc' = "finish"
             /\ session_state'["messages"] =
                   Append(messages,
                          [ role |-> "assistant",
                            content |->
                               IF fn = "run_chat_planning_agent"
                               THEN <<"<PLAN_HEADER>", "<PROJECT_OVERVIEW>">>
                                       \o Prefix(widget.user_input, PlanPrefixLen)
                                       \o <<"...", "<FALLBACK_APPROACH>", "<PLAN_FOOTER>">>
                               ELSE <<"<SORRY_ERROR>">> \o NewCall.outcome.value ]) ]_vars

\* Both calls raised, and the run that made the second is at its last line
\* with the apology as the newest message.
C2_Witness ==
    /\ pc = "finish"
    /\ Len(calls) = 2
    /\ calls[1].outcome.raises
    /\ calls[2].outcome.raises
    /\ Last(messages).role = "assistant"
    /\ Last(messages).content = Apology(calls[2].outcome.value)
    /\ messages[5].content = FallbackPlan(messages[4].content)

\* What generate_code_from_plan would leave behind for a pipeline outcome.
Archived(outcome, write_ok, timestamp) ==
    LET g == generate_code_from_plan(session_state, outcome, write_ok, timestamp)
    IN  <<g.files # {}, g.ss["code_generated"], g.ss["generated_code_path"] # None>>

AboutToGenerate ==
    /\ pc = "dispatch"
    /\ chat_stage = "planning"
    /\ WantsCode(widget.user_input)

\* C3 as stated: whether the archive is written and the flag and the path
\* are set depends on the value the pipeline returned, so two returned values
\* exist that lead to different outcomes.
C3_ResultDecides ==
    AboutToGenerate =>
       \E r1, r2 \in PipelineResults, w \in BOOLEAN, ts \in Timestamps :
          Archived(Returns(r1), w, ts) # Archived(Returns(r2), w, ts)

\* C3 as amended: the returned value decides nothing.  In a step that calls
\* the pipeline, the flag and the path are set and the archive exists exactly
\* when the call returned (whatever it returned) and the write succeeded; when
\* the call raised nothing is written and the pair stays unset.
C3_ReturnNotValueDecides ==
    [][ Called("execute_chat_based_planning_pipeline") =>
          LET wrote == /\ Len(calls') = Len(calls) + 2
                       /\ Last(calls').fn = "open"
                       /\ ~Last(calls').outcome.raises
              done == /\ session_state'["code_generated"]
                      /\ session_state'["generated_code_path"] # None
                      /\ session_state'["generated_code_path"][1] \in tmp_files'
              undone == /\ ~session_state'["code_generated"]
                        /\ session_state'["generated_code_path"] = None
                        /\ tmp_files' = tmp_files
          IN  /\ NewCall.outcome.raises => (Len(calls') = Len(calls) + 1 /\ undone)
              /\ ~NewCall.outcome.raises =>
                    /\ Len(calls') = Len(calls) + 2
                    /\ Last(calls').fn = "open"
                    /\ IF wrote THEN done ELSE undone ]_vars

\* The pipeline returned its error status and the archive was produced.
C3_Witness ==
    /\ Len(calls) = 3
    /\ calls[2].fn = "execute_chat_based_planning_pipeline"
    /\ calls[2].outcome = Returns(<<"<status: error>">>)
    /\ code_generated
    /\ generated_code_path # None
    /\ generated_code_path[1] \in tmp_files

\* C4: when no submission is being processed, code_generated is true exactly
\* when generated_code_path is set, both only in stage generating, and the
\* page shows the download button only in stage generating.
C4_FlagPathConsistent ==
    Completed =>
       /\ code_generated <=> (generated_code_path # None)
       /\ code_generated => chat_stage = "generating"
       /\ (generated_code_path # None) => chat_stage = "generating"
       /\ screen.download_button => chat_stage = "generating"

\* Code was generated and the page shows the download button.
C4_Witness ==
    /\ pc = "idle"
    /\ Initialized
    /\ code_generated
    /\ generated_code_path # None
    /\ screen.download_button

\* C5: when no submission is being processed, current_plan is set exactly in
\* the stages planning and generating, and every call of the pipeline was
\* passed the stored plan, never the default string.
C5_PlanStoredBeforeCode ==
    Completed =>
       /\ (current_plan # None) <=> (chat_stage \in {"planning", "generating"})
       /\ \A i \in 1..Len(calls) :
             calls[i].fn = "execute_chat_based_planning_pipeline" =>
                /\ current_plan = Some(calls[i].arg)
                /\ calls[i].arg # DefaultRequirements

\* The planner raised, and the pipeline was then called with the fallback plan.
C5_Witness ==
    /\ pc = "idle"
    /\ Len(calls) >= 2
    /\ calls[1].outcome.raises
    /\ calls[2].fn = "execute_chat_based_planning_pipeline"
    /\ calls[2].arg = FallbackPlan(calls[1].arg)

\* C6 as stated: while assistant_typing is true, the page shows the typing
\* indicator.
C6_TypingIndicatorShown ==
    Get(session_state, "assistant_typing", FALSE) => screen.chat.typing_indicator

\* No render ever shows the typing indicator: the flag is set and cleared
\* inside one run of process_user_input, after that run's render and before
\* the next.
TypingIndicatorNeverRendered == ~screen.chat.typing_indicator

\* C7 as stated: when the newest message is the assistant's reply that the
\* code has been generated and can be downloaded above, code_generated is
\* true, generated_code_path is set and the page, once rendered, shows the
\* download button.
C7_FollowUpMeansDownload ==
    (Completed /\ messages # <<>> /\ Last(messages).content = FollowUpResponse) =>
       /\ code_generated
       /\ generated_code_path # None
       /\ pc \in {"form", "idle"} => screen.download_button

\* The inputs that are /code once stripped and lowercased, written out.
CodeInputs ==
    { <<" ", "/", "C", "o", "D", "E", "\n">>,
      <<"/", "c", "o", "d", "e",
        " ", " ", " ", " ", " ", " ", " ", " ", " ", " ",
        " ", " ", " ", " ", " ", " ", " ", " ", " ", " ",
        " ", " ", " ", " ", " ", " ", " ", " ", " ", " ",
        " ", " ", " ", " ", " ", " ", " ", " ", " ", " ",
        " ", " ", " ", " ", " ", " ">> }

Frame(fields) ==
    \A k \in fields : session_state'[k] = session_state[k]

GuardedFields == {"chat_stage", "current_plan", "code_generated", "generated_code_path"}

\* C8: in a dispatch step, greeting advances to collecting_requirements on
\* any input without an external call; collecting_requirements advances to
\* planning exactly when the input has more than 50 characters; planning
\* advances to generating exactly when the input is /code once stripped and
\* lowercased.  A step whose guard is not met, a step in generating, and the
\* step of an empty submission leave chat_stage, current_plan, code_generated
\* and generated_code_path as they were and make no external call.
C8_GuardedAdvance ==
    [][ /\ pc = "dispatch" =>
             LET u == widget.user_input
                 stage2 == session_state'["chat_stage"]
                 quiet == Frame(GuardedFields) /\ calls' = calls
             IN  /\ chat_stage = "greeting" =>
                       /\ stage2 = "collecting_requirements"
                       /\ calls' = calls
                       /\ Frame(GuardedFields \ {"chat_stage"})
                 /\ chat_stage = "collecting_requirements" =>
                       IF Len(u) >= 51
                       THEN stage2 = "planning" /\ Called("run_chat_planning_agent")
                       ELSE quiet
                 /\ chat_stage = "planning" =>
                       IF u \in CodeInputs
                       THEN /\ stage2 = "generating"
                            /\ Called("execute_chat_based_planning_pipeline")
                       ELSE quiet
                 /\ chat_stage = "generating" => quiet
        /\ (pc = "form" /\ widget.user_input = <<>>) =>
              /\ session_state' = session_state
              /\ calls' = calls
              /\ pc' = "idle" ]_vars

\* An input of exactly 50 characters was processed in collecting_requirements
\* and the stage stayed there.
C8_Witness ==
    /\ pc = "finish"
    /\ widget.user_input = Rep("a", 50)
    /\ chat_stage = "collecting_requirements"
    /\ Len(messages) >= 5
    /\ Last(messages).content = MoreDetailsResponse
    /\ calls = <<>>

Roles(i) == IF i % 2 = 1 THEN "assistant" ELSE "user"

IsPrefix(s, t) == Len(s) <= Len(t) /\ SubSeq(t, 1, Len(s)) = s

\* C9: once the page has rendered and no submission is being processed, the
\* history has 1 + 2n messages for n processed submissions, the first is the
\* greeting and no other is, and the roles alternate assistant, user,
\* assistant, ...; and no step removes or changes an earlier message.
C9_HistoryAlternates ==
    /\ []( (Initialized /\ pc \in {"form", "idle"}) =>
              /\ Len(messages) = 1 + 2 * submissions
              /\ \A i \in 1..Len(messages) :
                    /\ messages[i].role = Roles(i)
                    /\ (messages[i].content = get_assistant_greeting) <=> (i = 1) )
    /\ [][ Has(session_state, "messages") =>
              /\ Has(session_state', "messages")
              /\ IsPrefix(messages, session_state'["messages"]) ]_vars

\* Three submissions were processed and the page rendered again after them.
C9_Witness ==
    /\ pc = "idle"
    /\ submissions = 3
    /\ Len(messages) = 7
    /\ screen.chat.messages = 7

====
